---------------------------- MODULE Spec2Model ----------------------------
(***************************************************************************)
(* A model of src/aligner.py: class AlignClouds, the estimator of the      *)
(* affine transform that aligns a source point cloud to a target cloud.    *)
(*                                                                         *)
(* Scalars.  numpy float64 values are modelled as exact rationals <<n, d>> *)
(* in lowest terms with d > 0, and the not-a-number value (0/0, the mean   *)
(* of an empty column) as <<0, 0>>.  Rounding is not modelled.             *)
(*                                                                         *)
(* Arrays.  A cloud is an N x K numpy array, [cols |-> K, rows |-> the     *)
(* sequence of its N rows].  The caller's arrays live in the heap `clouds` *)
(* and are passed to the methods by reference.                             *)
(*                                                                         *)
(* Libraries.  KDTree is scipy.spatial.KDTree (query returns the pair      *)
(* (distances, indices) with one index per query point); minimize is       *)
(* scipy.optimize.minimize, a black box that evaluates the objective at    *)
(* the initial point first, then at points of its own choice, and ends by  *)
(* convergence or by exhausting its budget.                                *)
(***************************************************************************)
EXTENDS Integers, Sequences, FiniteSets

VARIABLES
    clouds,          \* the caller's arrays: array name -> cloud
    pc,              \* "new" (no estimator yet), "idle", "estimating"
    tree,            \* self.tree: the data the KDTree was built from
    optimal_params,  \* self.optimal_params; <<>> while the attribute is unset
    source,          \* estimate_transform's argument (an array name) or "none"
    target,          \* estimate_transform's argument (an array name) or "none"
    x,               \* the optimizer's current point
    fx,              \* <<objective value at x>>, or <<>> when x is not evaluated yet
    evals,           \* objective evaluations made by the running minimize call
    outcome,         \* what the last finished call produced
    last_result      \* the vector returned by the last completed estimate_transform

vars == <<clouds, pc, tree, optimal_params, source, target, x, fx, evals,
          outcome, last_result>>

(***************************************************************************)
(* Bounds of the model.                                                    *)
(***************************************************************************)
\* the largest number of rows of a cloud
MaxPts == 2
\* the optimizer's evaluation budget
MaxEvals == 2

(***************************************************************************)
(* Scalars: exact rationals and NaN.                                       *)
(***************************************************************************)
NaN == <<0, 0>>

IsNaN(q) == q[2] = 0

Abs(n) == IF n < 0 THEN -n ELSE n

RECURSIVE GCD(_, _)
GCD(a, b) == IF b = 0 THEN a ELSE GCD(b, a % b)

Rat(n, d) ==
    IF d = 0 THEN NaN
    ELSE IF d = 1 THEN <<n, 1>>
    ELSE LET s == IF d < 0 THEN -1 ELSE 1
             g == GCD(Abs(n), Abs(d))
         IN  <<(s * n) \div g, (s * d) \div g>>

Q(n) == <<n, 1>>

RAdd(p, q) ==
    IF IsNaN(p) \/ IsNaN(q) THEN NaN
    ELSE Rat(p[1] * q[2] + q[1] * p[2], p[2] * q[2])

RSub(p, q) ==
    IF IsNaN(p) \/ IsNaN(q) THEN NaN
    ELSE Rat(p[1] * q[2] - q[1] * p[2], p[2] * q[2])

RMul(p, q) ==
    IF IsNaN(p) \/ IsNaN(q) THEN NaN
    ELSE Rat(p[1] * q[1], p[2] * q[2])

\* p < q; every comparison with NaN is false
RLess(p, q) ==
    /\ ~IsNaN(p)
    /\ ~IsNaN(q)
    /\ p[1] * q[2] < q[1] * p[2]

\* the sum of a sequence of scalars (np.sum; 0.0 for the empty sequence)
RECURSIVE RSum(_)
RSum(s) == IF s = <<>> THEN Q(0) ELSE RAdd(s[1], RSum(Tail(s)))

\* a sum divided by an element count (np.mean): 0.0 / 0 is NaN
RDivCount(p, n) ==
    IF IsNaN(p) \/ n = 0 THEN NaN ELSE Rat(p[1], p[2] * n)

(***************************************************************************)
(* Clouds.                                                                 *)
(***************************************************************************)
Min(a, b) == IF a < b THEN a ELSE b

Max(a, b) == IF a < b THEN b ELSE a

\* arr[:, :3]
Cols3(cloud) == [i \in 1..Len(cloud.rows) |-> SubSeq(cloud.rows[i], 1, 3)]

\* one row with NaN in its first three coordinates
HasNaN(p) == \E c \in 1..3 : IsNaN(p[c])

\* sum((a - b) ** 2) over the three coordinates of one row
Square(q) == RMul(q, q)

SqDist(a, b) ==
    RAdd(RAdd(Square(RSub(a[1], b[1])), Square(RSub(a[2], b[2]))),
         Square(RSub(a[3], b[3])))


(***************************************************************************)
(* Results of a call: a returned value, or the exception it raised.        *)
(***************************************************************************)
Ok(v) == [kind |-> "ok", value |-> v]

Fail(k) == [kind |-> k, value |-> <<>>]

(***************************************************************************)
(* __init__ and loss_function.                                             *)
(***************************************************************************)
\* KDTree(ex_2[:, :3]): the index keeps the first three columns of the data
KDTree(ex_2) == Cols3(ex_2)

\* the squared distance from p to the nearest point of a non-empty index
RECURSIVE MinDist(_, _)
MinDist(p, t) ==
    IF Len(t) = 1 THEN SqDist(p, t[1])
    ELSE LET d == SqDist(p, t[1])
             m == MinDist(p, Tail(t))
         IN  IF RLess(m, d) THEN m ELSE d

\* the 0-based indices tree.query may answer for one query point: a nearest
\* data point (any of the tied ones), and for an empty tree the "missing
\* neighbour" index n
Nearest(t, p) ==
    IF t = <<>> \/ HasNaN(p) THEN {Len(t)}
    ELSE LET best == MinDist(p, t)
         IN  {k - 1 : k \in {j \in 1..Len(t) : SqDist(p, t[j]) = best}}

\* tree.query(A[:, :3])[1]: the index arrays the query may return, one
\* index per query point
RECURSIVE QueryIndices(_, _)
QueryIndices(t, A3) ==
    IF A3 = <<>> THEN {<<>>}
    ELSE LET first == Nearest(t, Head(A3))
             rest == QueryIndices(t, Tail(A3))
         IN  {<<j>> \o r : j \in first, r \in rest}

\* np.sum((A[:, :3] - B[idx, :3]) ** 2), or IndexError when an index is out
\* of B's rows
LossWith(idx, A3, B3) ==
    IF \E i \in 1..Len(A3) : idx[i] >= Len(B3) THEN Fail("IndexError")
    ELSE Ok(RSum([i \in 1..Len(A3) |-> SqDist(A3[i], B3[idx[i] + 1])]))

\* loss_function(A, B) on an estimator whose index is t: every outcome the
\* call can have.  A query with a NaN coordinate is rejected by the index
\* (ValueError) or answered with the missing-neighbour index.
loss_function(t, A, B) ==
    LET A3 == Cols3(A)
        B3 == Cols3(B)
    IN  {LossWith(idx, A3, B3) : idx \in QueryIndices(t, A3)}
        \cup (IF \E i \in 1..Len(A3) : HasNaN(A3[i]) THEN {Fail("ValueError")} ELSE {})

(***************************************************************************)
(* transform_points.                                                       *)
(***************************************************************************)
\* np.reshape(v, (3, 3)): row-major
Reshape33(v) == [r \in 1..3 |-> [c \in 1..3 |-> v[(r - 1) * 3 + c]]]

NoTranspose(m) == m

\* affine_matrix.T
Transpose(m) == [r \in 1..3 |-> [c \in 1..3 |-> m[c][r]]]

\* np.dot of one row vector with a 3 x 3 matrix
DotRow(p, m) ==
    [c \in 1..3 |->
        RAdd(RAdd(RMul(p[1], m[1][c]), RMul(p[2], m[2][c])), RMul(p[3], m[3][c]))]

\* params[:9]
Head9(params) == SubSeq(params, 1, Min(9, Len(params)))

\* params[-3:]
Last3(params) == SubSeq(params, Max(Len(params) - 3, 0) + 1, Len(params))

\* the rows of transformed_points: a copy of the rows of points with the
\* first three coordinates overwritten
TransformedRows(points, params) ==
    LET affine_matrix == Reshape33(Head9(params))
        translation_vector == Last3(params)
    IN  [i \in 1..Len(points.rows) |->
            LET d == DotRow(SubSeq(points.rows[i], 1, 3), Transpose(affine_matrix))
            IN  [c \in 1..3 |-> RAdd(d[c], translation_vector[c])]
                \o SubSeq(points.rows[i], 4, points.cols)]

\* transform_points written without points.copy(): the result aliases the
\* argument
transform_points_inplace(points, params) ==
    IF Len(Head9(params)) # 9
    THEN [kind |-> "ValueError", value |-> <<>>, arg |-> points]
    ELSE LET t == [cols |-> points.cols, rows |-> TransformedRows(points, params)]
         IN  [kind |-> "ok", value |-> t, arg |-> t]

\* transform_points(points, params): kind and value are what the call
\* produces, arg is the caller's array `points` after the call.  No length
\* check is made (the assert is commented out); np.reshape raises ValueError
\* when params[:9] has fewer than 9 elements.
transform_points(points, params) ==
    IF Len(Head9(params)) # 9
    THEN [kind |-> "ValueError", value |-> <<>>, arg |-> points]
    ELSE [kind |-> "ok",
          value |-> [cols |-> points.cols, rows |-> TransformedRows(points, params)],
          arg |-> points]

(***************************************************************************)
(* objective_function.                                                     *)
(***************************************************************************)
\* every outcome of objective_function(params, source, target); each carries
\* the source array as the call leaves it
objective_function(t, params, src, tgt) ==
    LET tr == transform_points(src, params)
    IN  IF tr.kind # "ok"
        THEN {[kind |-> tr.kind, value |-> <<>>, arg |-> tr.arg]}
        ELSE {[kind |-> d.kind, value |-> d.value, arg |-> tr.arg] :
                 d \in loss_function(t, tr.value, tgt)}

(***************************************************************************)
(* estimate_transform: the initial guess.                                  *)
(***************************************************************************)
\* np.eye(3).reshape((-1,))
Eye9 == [k \in 1..9 |-> IF (k - 1) \div 3 = (k - 1) % 3 THEN Q(1) ELSE Q(0)]

\* np.mean(a3, axis=0) of an N x 3 array
MeanAxis0(a3) ==
    [c \in 1..3 |-> RDivCount(RSum([i \in 1..Len(a3) |-> a3[i][c]]), Len(a3))]

initial_params_swapped(src, tgt) ==
    Eye9 \o [c \in 1..3 |-> RSub(MeanAxis0(Cols3(src))[c], MeanAxis0(Cols3(tgt))[c])]

initial_params(src, tgt) ==
    Eye9 \o [c \in 1..3 |-> RSub(MeanAxis0(Cols3(tgt))[c], MeanAxis0(Cols3(src))[c])]

KeepOptimum(old, result_x) == old

\* self.optimal_params = result.x
RecordOptimum(old, result_x) == result_x

(***************************************************************************)
(* The inputs the caller draws from.                                       *)
(***************************************************************************)
\* the longest parameter vector the caller passes to transform_points
MaxParamLen == 13

ArrayNames == {"a", "b"}

\* rows of 3-column clouds and of clouds with one extra column
Points3 == {<<Q(0), Q(0), Q(0)>>, <<Q(2), Q(1), Q(0)>>}

Points4 == {<<Q(1), Q(0), Q(2), Q(7)>>}

SeqsUpTo(S, n) == UNION {[1..k -> S] : k \in 0..n}

CloudSet ==
    {[cols |-> 3, rows |-> r] : r \in SeqsUpTo(Points3, MaxPts)}
    \cup {[cols |-> 4, rows |-> r] : r \in SeqsUpTo(Points4, MaxPts) \ {<<>>}}

\* identity, zero translation
IdentityParams == Eye9 \o <<Q(0), Q(0), Q(0)>>

\* a shear with a translation
ShearParams ==
    <<Q(1), Q(2), Q(0), Q(0), Q(1), Q(0), Q(0), Q(0), Q(1), Q(1), Q(0), Q(-1)>>

\* an endless supply of further scalars for over-long vectors
Padding(n) == [k \in 1..n |-> Q(2 + k)]

\* parameter vectors of every length up to MaxParamLen
ParamChoices ==
    {IdentityParams}
    \cup {SubSeq(ShearParams \o Padding(Max(n - Len(ShearParams), 0)), 1, n) :
             n \in 0..MaxParamLen}

\* the points the optimizer may move to
Candidates == {IdentityParams, ShearParams}

NoCall == [op |-> "none", kind |-> "ok", value |-> <<>>, args |-> <<>>]

(***************************************************************************)
(* The state machine.                                                      *)
(***************************************************************************)
Init ==
    /\ clouds \in [ArrayNames -> CloudSet]
    /\ pc = "new"
    /\ tree = <<>>
    /\ optimal_params = <<>>
    /\ source = "none"
    /\ target = "none"
    /\ x = <<>>
    /\ fx = <<>>
    /\ evals = 0
    /\ outcome = NoCall
    /\ last_result = <<>>

\* AlignClouds(ex_2)
Construct(r) ==
    /\ pc = "new"
    /\ outcome.op = "none"
    /\ tree' = KDTree(clouds[r])
    /\ pc' = "idle"
    /\ outcome' = [op |-> "__init__", kind |-> "ok", value |-> <<>>,
                   args |-> <<r>>]
    /\ UNCHANGED <<clouds, optimal_params, source, target, x, fx, evals, last_result>>

\* AlignClouds.transform_points(points, params), a static method
TransformPoints(r, params) ==
    /\ pc \in {"new", "idle"}
    /\ outcome.op = "none"
    /\ LET res == transform_points(clouds[r], params)
       IN  /\ clouds' = [clouds EXCEPT ![r] = res.arg]
           /\ outcome' = [op |-> "transform_points", kind |-> res.kind,
                          value |-> res.value, args |-> <<r, params>>]
    /\ UNCHANGED <<pc, tree, optimal_params, source, target, x, fx, evals, last_result>>

\* self.loss_function(A, B)
LossFunction(a, b) ==
    /\ pc = "idle"
    /\ outcome.op = "none"
    /\ \E d \in loss_function(tree, clouds[a], clouds[b]) :
           outcome' = [op |-> "loss_function", kind |-> d.kind, value |-> d.value,
                       args |-> <<a, b>>]
    /\ UNCHANGED <<clouds, pc, tree, optimal_params, source, target, x, fx, evals,
                   last_result>>

\* self.objective_function(params, source, target), called by the caller
ObjectiveFunction(params, s, t) ==
    /\ pc = "idle"
    /\ outcome.op = "none"
    /\ \E o \in objective_function(tree, params, clouds[s], clouds[t]) :
           /\ clouds' = [clouds EXCEPT ![s] = o.arg]
           /\ outcome' = [op |-> "objective_function", kind |-> o.kind,
                          value |-> o.value, args |-> <<params, s, t>>]
    /\ UNCHANGED <<pc, tree, optimal_params, source, target, x, fx, evals, last_result>>

\* self.estimate_transform(source, target) up to the call of minimize
EstimateBegin(s, t) ==
    /\ pc = "idle"
    /\ outcome.op = "none"
    /\ pc' = "estimating"
    /\ source' = s
    /\ target' = t
    /\ x' = initial_params(clouds[s], clouds[t])
    /\ fx' = <<>>
    /\ evals' = 0
    /\ outcome' = [op |-> "estimate_transform", kind |-> "running", value |-> <<>>,
                   args |-> <<>>]
    /\ UNCHANGED <<clouds, tree, optimal_params, last_result>>

\* minimize evaluates self.objective_function(x, source, target); an
\* exception raised by the objective leaves minimize and estimate_transform
OptimizerEval ==
    /\ pc = "estimating"
    /\ fx = <<>>
    /\ \E o \in objective_function(tree, x, clouds[source], clouds[target]) :
           /\ clouds' = [clouds EXCEPT ![source] = o.arg]
           /\ IF o.kind = "ok"
              THEN /\ fx' = <<o.value>>
                   /\ evals' = evals + 1
                   /\ UNCHANGED <<pc, source, target, x, outcome>>
              ELSE /\ pc' = "idle"
                   /\ outcome' = [op |-> "estimate_transform", kind |-> o.kind,
                                  value |-> <<>>, args |-> <<>>]
                   /\ source' = "none"
                   /\ target' = "none"
                   /\ x' = <<>>
                   /\ fx' = <<>>
                   /\ evals' = 0
    /\ UNCHANGED <<tree, optimal_params, last_result>>

\* minimize moves to another point
OptimizerStep ==
    /\ pc = "estimating"
    /\ fx # <<>>
    /\ evals < MaxEvals
    /\ \E c \in Candidates \ {x} : x' = c
    /\ fx' = <<>>
    /\ UNCHANGED <<clouds, pc, tree, optimal_params, source, target, evals, outcome,
                   last_result>>

\* minimize ends, by convergence or with its budget used up; either way
\* estimate_transform records result.x and returns it
OptimizerStop ==
    /\ pc = "estimating"
    /\ fx # <<>>
    /\ \E message \in {"converged"} \cup (IF evals >= MaxEvals THEN {"budget"} ELSE {}) :
           outcome' = [op |-> "estimate_transform", kind |-> "ok", value |-> x,
                       args |-> <<>>, message |-> message]
    /\ optimal_params' = RecordOptimum(optimal_params, x)
    /\ last_result' = x
    /\ pc' = "idle"
    /\ source' = "none"
    /\ target' = "none"
    /\ x' = <<>>
    /\ fx' = <<>>
    /\ evals' = 0
    /\ UNCHANGED <<clouds, tree>>

\* the caller is done with what the last call gave back and goes on to its
\* next call
CallerContinues ==
    /\ pc \in {"new", "idle"}
    /\ outcome.op # "none"
    /\ outcome' = NoCall
    /\ UNCHANGED <<clouds, pc, tree, optimal_params, source, target, x, fx, evals,
                   last_result>>

Next ==
    \/ \E r \in ArrayNames : Construct(r)
    \/ \E r \in ArrayNames, params \in ParamChoices : TransformPoints(r, params)
    \/ \E a, b \in ArrayNames : LossFunction(a, b)
    \/ \E params \in Candidates, s, t \in ArrayNames : ObjectiveFunction(params, s, t)
    \/ \E s, t \in ArrayNames : EstimateBegin(s, t)
    \/ OptimizerEval
    \/ OptimizerStep
    \/ OptimizerStop
    \/ CallerContinues

Spec == Init /\ [][Next]_vars

(***************************************************************************)
(* Notions the properties are stated with.                                 *)
(***************************************************************************)
\* the arguments of the transform_points call whose result is in outcome
CallPoints == clouds[outcome.args[1]]

CallParams == outcome.args[2]

\* M*p + t, coordinate c: M is the first 9 parameters read row by row, t
\* the three parameters after them, p the first three coordinates of row
AffineCoord(params, row, c) ==
    RAdd(RAdd(RAdd(RMul(params[3 * (c - 1) + 1], row[1]),
                   RMul(params[3 * (c - 1) + 2], row[2])),
              RMul(params[3 * (c - 1) + 3], row[3])),
         params[9 + c])

\* the squared distance from point p to the point of B nearest to it
NearestSqDist(p, B3) ==
    LET ds == {SqDist(p, B3[j]) : j \in 1..Len(B3)}
    IN  CHOOSE d \in ds : \A e \in ds : ~RLess(e, d)

\* the one-directional Chamfer distance from cloud A to a non-empty cloud B
Chamfer(A, B) ==
    RSum([i \in 1..Len(A.rows) |-> NearestSqDist(Cols3(A)[i], Cols3(B))])

\* every point of A coincides with some point of B on the first three
\* coordinates
Overlaps(A, B) ==
    \A i \in 1..Len(A.rows) : \E j \in 1..Len(B.rows) : Cols3(A)[i] = Cols3(B)[j]

\* the sum of coordinate c over the rows of a cloud
ColumnSum(cloud, c) == RSum([i \in 1..Len(cloud.rows) |-> cloud.rows[i][c]])

\* estimate_transform is running on an empty source or an empty target
EmptyInput ==
    /\ pc = "estimating"
    /\ (clouds[source].rows = <<>> \/ clouds[target].rows = <<>>)

(***************************************************************************)
(* C1.  transform_points fails for every parameter vector whose length is  *)
(* not exactly 12 and returns no transformed cloud in that case.  (Any     *)
(* raised exception is counted as the failure the claim asks for.)         *)
(***************************************************************************)
C1_WrongLengthRejected ==
    (outcome.op = "transform_points" /\ Len(CallParams) # 12) => outcome.kind # "ok"

(***************************************************************************)
(* C2.  No estimator holding an index over an empty cloud ever exists:     *)
(* construction from a target with zero points fails.                      *)
(***************************************************************************)
C2_NoIndexOverEmptyCloud == pc # "new" => tree # <<>>

(***************************************************************************)
(* C3.  estimate_transform on an empty source or an empty target fails     *)
(* before the optimizer evaluates the objective even once.  Stated for an  *)
(* estimator whose own index holds at least one point.                     *)
(***************************************************************************)
C3_EmptyCloudFailsBeforeEvaluation == (EmptyInput /\ tree # <<>>) => evals = 0

(***************************************************************************)
(* C4.  For 12 parameters transform_points returns a cloud of the shape of *)
(* its argument whose rows have M*p + t as their first three coordinates   *)
(* and the argument's values in every further column; with the identity    *)
(* matrix and zero translation the result equals the argument.             *)
(***************************************************************************)
C4_TransformIsAffine ==
    (outcome.op = "transform_points" /\ Len(CallParams) = 12) =>
        /\ outcome.kind = "ok"
        /\ outcome.value.cols = CallPoints.cols
        /\ Len(outcome.value.rows) = Len(CallPoints.rows)
        /\ \A i \in 1..Len(CallPoints.rows) :
               /\ Len(outcome.value.rows[i]) = CallPoints.cols
               /\ \A c \in 1..3 :
                      outcome.value.rows[i][c]
                          = AffineCoord(CallParams, CallPoints.rows[i], c)
               /\ \A c \in 4..CallPoints.cols :
                      outcome.value.rows[i][c] = CallPoints.rows[i][c]
        /\ (CallParams = <<Q(1), Q(0), Q(0), Q(0), Q(1), Q(0), Q(0), Q(0), Q(1),
                           Q(0), Q(0), Q(0)>>
               => outcome.value = CallPoints)

\* a cloud with an extra column and MaxPts rows went through the shear and
\* came out changed
C4_Witness ==
    /\ outcome.op = "transform_points"
    /\ outcome.kind = "ok"
    /\ CallParams = ShearParams
    /\ CallPoints.cols = 4
    /\ Len(CallPoints.rows) >= 2
    /\ outcome.value # CallPoints

(***************************************************************************)
(* C5.  loss_function(A, B) returns the sum over the points of A of the    *)
(* squared distance to the nearest point of B, for every non-empty target  *)
(* cloud B the caller passes.  Stated for an estimator whose own index     *)
(* holds at least one point.                                               *)
(***************************************************************************)
C5_LossIsChamferToB ==
    (/\ outcome.op = "loss_function"
     /\ tree # <<>>
     /\ clouds[outcome.args[2]].rows # <<>>) =>
        /\ outcome.kind = "ok"
        /\ outcome.value = Chamfer(clouds[outcome.args[1]], clouds[outcome.args[2]])

(***************************************************************************)
(* C6.  Whenever every point of the source cloud coincides with some point *)
(* of the target cloud, the loss is exactly zero; in particular the loss   *)
(* of a cloud against itself is zero.  Stated for an estimator whose own   *)
(* index holds at least one point.                                         *)
(***************************************************************************)
C6_OverlapGivesZeroLoss ==
    (/\ outcome.op = "loss_function"
     /\ tree # <<>>
     /\ Overlaps(clouds[outcome.args[1]], clouds[outcome.args[2]])) =>
        /\ outcome.kind = "ok"
        /\ outcome.value = Q(0)

(***************************************************************************)
(* C7.  The nearest-neighbour index used during an estimate_transform call *)
(* is built from that call's target.  Stated for an estimator whose own    *)
(* index holds at least one point.                                         *)
(***************************************************************************)
C7_IndexBuiltFromCallTarget ==
    (pc = "estimating" /\ tree # <<>>) => tree = Cols3(clouds[target])

(***************************************************************************)
(* C8.  No step changes a caller's array, no step after construction       *)
(* changes the index, and a step that evaluates objective_function (for    *)
(* the caller or for the optimizer) changes neither the index nor the      *)
(* recorded optimum.                                                       *)
(***************************************************************************)
C8_NothingMutated ==
    [][/\ clouds' = clouds
       /\ (pc # "new" => tree' = tree)
       /\ ((outcome'.op = "objective_function" \/ evals' = evals + 1) =>
              /\ tree' = tree
              /\ optimal_params' = optimal_params)]_vars

\* with an optimum recorded, a transform_points call returned a cloud that
\* differs from its argument
C8_Witness ==
    /\ optimal_params # <<>>
    /\ outcome.op = "transform_points"
    /\ outcome.kind = "ok"
    /\ outcome.value # CallPoints

C10_OptimumIsLastResult ==
    [][/\ ((pc = "estimating" /\ pc' = "idle" /\ fx # <<>>) =>
              /\ outcome'.kind = "ok"
              /\ Len(outcome'.value) = 12
              /\ optimal_params' = outcome'.value)
       /\ ((pc = "estimating" /\ pc' = "idle" /\ outcome'.kind # "ok") =>
              optimal_params' = optimal_params)
       /\ optimal_params' = last_result']_vars

\* a call failed after an earlier call had ended with the budget used up or
\* by convergence, and the optimum of the earlier call is still recorded
C10_Witness ==
    /\ outcome.op = "estimate_transform"
    /\ outcome.kind \notin {"ok", "running"}
    /\ optimal_params # <<>>
    /\ optimal_params = last_result

=============================================================================
